---- MODULE Spec2Model ----
(***************************************************************************)
(* The yTwist deformer plug-in (RandomCircle/src/RandomPoints.cpp): the    *)
(* plug-in entry points, the node's attribute initialisation and the       *)
(* deform callback, stepped through one host call at a time.               *)
(*                                                                         *)
(* Numbers.  The code computes in IEEE doubles; the model computes in      *)
(* exact rationals <<n, d>> (d > 0, lowest terms).  Angles are counted in  *)
(* units of t0 = arctan(4/3), for which cos(t0) = 3/5 and sin(t0) = 4/5    *)
(* are rational, so cos(k*t0) and sin(k*t0) are the real and imaginary     *)
(* parts of ((3 + 4i)/5)^k.  Rounding, infinities and NaN are not          *)
(* modelled.                                                               *)
(***************************************************************************)
EXTENDS Integers, Sequences, FiniteSets, TLC

\* ------------------------------------------------------------------ bounds

\* Most points one evaluation hands to the deformer, over all its geometries.
MaxTotalPoints == 3

\* Values the host stores in the angle attribute (units of t0) and in the
\* envelope attribute, and the <<x, z>> and y of the points it hands over.
AngleVals == {-1, 0, 2}
EnvVals == {0, 1}
XZVals == {<<1, 0>>, <<0, 1>>, <<1, 1>>}
YVals == {0, 1}

\* Indices of the input geometries of one node (deform's multiIndex).
MultiIndices == {0, 1}

\* ------------------------------------------------------------- rationals

Abs(n) == IF n < 0 THEN -n ELSE n

\* Euclid's algorithm.  The remainder is bound by a set constructor, here and
\* in Rat, so that TLC works each argument out once and not once per use.
RECURSIVE Gcd(_, _)
Gcd(a, b) ==
  IF b = 0 THEN a ELSE CHOOSE g \in {Gcd(b, r) : r \in {a % b}} : TRUE

Lowest(n, d) ==
  LET g == Gcd(Abs(n), Abs(d))
      s == IF d < 0 THEN -1 ELSE 1
  IN  <<(s * n) \div g, (s * d) \div g>>

\* The rational n/d in lowest terms with a positive denominator.
Rat(n, d) == CHOOSE q \in {Lowest(p[1], p[2]) : p \in {<<n, d>>}} : TRUE

R(n) == <<n, 1>>
Zero == R(0)

RAdd(a, b) == Rat(a[1] * b[2] + b[1] * a[2], a[2] * b[2])
RSub(a, b) == Rat(a[1] * b[2] - b[1] * a[2], a[2] * b[2])
RMul(a, b) == Rat(a[1] * b[1], a[2] * b[2])

RECURSIVE Pow5(_)
Pow5(k) == IF k = 0 THEN 1 ELSE 5 * Pow5(k - 1)

\* (3 + 4i)^k as <<real part, imaginary part>>, k >= 0.
RECURSIVE GaussPow(_)
GaussPow(k) ==
  IF k = 0 THEN <<1, 0>>
  ELSE LET p == GaussPow(k - 1)
       IN  <<3 * p[1] - 4 * p[2], 4 * p[1] + 3 * p[2]>>

\* cos and sin of f*t0 for an integral f (every angle the model forms is one).
cos(f) == Rat(GaussPow(Abs(f[1]))[1], Pow5(Abs(f[1])))
sin(f) ==
  LET k == f[1]
      s == GaussPow(Abs(k))[2]
  IN  Rat(IF k < 0 THEN -s ELSE s, Pow5(Abs(k)))

\* ---------------------------------------------------------------- status

kSuccess == "kSuccess"
kFailure == "kFailure"
Statuses == {kSuccess, kFailure, "kInvalidParameter", "kInsufficientMemory"}

\* McheckErr as a macro that hands the host's status on.
McheckErr_forward(stat) == IF kSuccess # stat THEN stat ELSE "continue"

\* McheckErr as a macro that never fires.
McheckErr_ignore(stat) == "continue"

\* McheckErr(stat, msg): the status the enclosing function returns when the
\* macro fires, or "continue" when it does not.
McheckErr(stat) == IF kSuccess # stat THEN kFailure ELSE "continue"

\* ------------------------------------------------------------------ state

NoValue == "none"   \* a status or an entry point not there yet
Unset == <<>>       \* a local not assigned yet

VARIABLES
  registry,    \* node types registered with the host: set of records
  classAttrs,  \* attributes yTwist::initialize added: sequence of records
  affects,     \* attributeAffects relation: set of <<from, to>>
  lastCall,    \* the entry point the host called last: [call, host, result]
  regBefore,   \* the registry as it was before the last initializePlugin
  nodes,       \* data blocks of the yTwist nodes in the scene: at most one
  angleSet,    \* whether the angle of the node was ever set
  input,       \* the geometries as handed to the evaluation
  geoms,       \* the geometries the iterators walk and write
  multiIndex,  \* the geometry deform is working on
  iter,        \* position of the iterator (1-based)
  magnitude,   \* deform's local
  env,         \* deform's local
  status,      \* deform's local
  ret,         \* what deform returned
  cerr,        \* messages written to cerr
  calls,       \* host calls made by the current deform, in order
  pc

vars == <<registry, classAttrs, affects, lastCall, regBefore, nodes, angleSet,
          input, geoms, multiIndex, iter, magnitude, env, status, ret, cerr,
          calls, pc>>

pluginVars == <<registry, classAttrs, affects, lastCall, regBefore>>
nodeVars == <<nodes, angleSet>>
deformVars == <<input, geoms, multiIndex, iter, magnitude, env, status, ret,
                cerr, calls, pc>>

\* ------------------------------------------------------------- the plug-in

yTwist_id == 1279686   \* 0x001386c6
OtherNode == [name |-> "polySphere", id |-> 1, type |-> "kDependNode"]

\* initialize with a default angle of one unit.
yTwist_initialize_default1 ==
  [attrs |-> <<[name |-> "angle", short |-> "fa", type |-> "kDouble",
                default |-> R(1), keyable |-> TRUE]>>,
   affects |-> {<<"angle", "outputGeom">>},
   ret |-> kSuccess]

\* What yTwist::initialize leaves behind and returns.
yTwist_initialize ==
  [attrs |-> <<[name |-> "angle", short |-> "fa", type |-> "kDouble",
                default |-> Zero, keyable |-> TRUE]>>,
   affects |-> {<<"angle", "outputGeom">>},
   ret |-> kSuccess]

Registered(id) == \E e \in registry : e.id = id

\* MFnPlugin::registerNode as the host answers it: s is the host's status.
registerNode(name, id, type, s) ==
  IF s = kSuccess THEN registry \cup {[name |-> name, id |-> id, type |-> type]}
  ELSE registry

deregisterNode(id, s) ==
  IF s = kSuccess THEN {e \in registry : e.id # id} ELSE registry

\* The host runs the initialize callback while it registers the node type and
\* refuses the registration when the callback fails.
initializePlugin ==
  /\ pc = "idle"
  /\ ~Registered(yTwist_id)
  /\ \E s \in Statuses :
       /\ s = kSuccess => yTwist_initialize.ret = kSuccess
       /\ registry' = registerNode("yTwist", yTwist_id, "kDeformerNode", s)
       /\ IF s = kSuccess
          THEN /\ classAttrs' = yTwist_initialize.attrs
               /\ affects' = yTwist_initialize.affects
          ELSE UNCHANGED <<classAttrs, affects>>
       /\ lastCall' = [call |-> "initializePlugin", host |-> s, result |-> s]
  /\ regBefore' = registry
  /\ UNCHANGED <<nodeVars, deformVars>>

\* uninitializePlugin deregistering another type id.
uninitializePlugin_otherId ==
  /\ pc = "idle"
  /\ Registered(yTwist_id)
  /\ nodes = <<>>
  /\ \E s \in Statuses :
       /\ registry' = deregisterNode(1, s)
       /\ IF s = kSuccess
          THEN /\ classAttrs' = <<>>
               /\ affects' = {}
          ELSE UNCHANGED <<classAttrs, affects>>
       /\ lastCall' = [call |-> "uninitializePlugin", host |-> s, result |-> s]
  /\ UNCHANGED <<regBefore, nodeVars, deformVars>>

\* The host unloads the plug-in only while the scene holds none of its nodes.
uninitializePlugin ==
  /\ pc = "idle"
  /\ Registered(yTwist_id)
  /\ nodes = <<>>
  /\ \E s \in Statuses :
       /\ registry' = deregisterNode(yTwist_id, s)
       /\ IF s = kSuccess
          THEN /\ classAttrs' = <<>>
               /\ affects' = {}
          ELSE UNCHANGED <<classAttrs, affects>>
       /\ lastCall' = [call |-> "uninitializePlugin", host |-> s, result |-> s]
  /\ UNCHANGED <<regBefore, nodeVars, deformVars>>

\* ---------------------------------------------------------------- the node

\* An entry point that makes no registration call of its own.
Called(name) == [call |-> name, host |-> NoValue, result |-> NoValue]

\* The data block deform is handed: that of the one node.
block == nodes[1]

\* The default the host gives a new node for attribute `name`.
DefaultOf(name) ==
  LET i == CHOOSE j \in 1..Len(classAttrs) : classAttrs[j].name = name
  IN  classAttrs[i].default

creator ==
  /\ pc = "idle"
  /\ Registered(yTwist_id)
  /\ nodes = <<>>
  /\ \E e \in EnvVals :
       nodes' = <<[angle |-> DefaultOf("angle"), envelope |-> R(e)]>>
  /\ angleSet' = FALSE
  /\ lastCall' = Called("creator")
  /\ UNCHANGED <<registry, classAttrs, affects, regBefore, deformVars>>

setAngle ==
  /\ pc = "idle"
  /\ nodes # <<>>
  /\ \E a \in AngleVals : nodes' = [nodes EXCEPT ![1].angle = R(a)]
  /\ angleSet' = TRUE
  /\ UNCHANGED <<pluginVars, deformVars>>

setEnvelope ==
  /\ pc = "idle"
  /\ nodes # <<>>
  /\ \E e \in EnvVals : nodes' = [nodes EXCEPT ![1].envelope = R(e)]
  /\ UNCHANGED <<angleSet, pluginVars, deformVars>>

deleteNode ==
  /\ pc = "idle"
  /\ nodes # <<>>
  /\ nodes' = <<>>
  /\ angleSet' = FALSE
  /\ UNCHANGED <<pluginVars, deformVars>>

\* --------------------------------------------------------------- geometry

MPoint(x, y, z) == [x |-> R(x), y |-> R(y), z |-> R(z)]
Points == {MPoint(xz[1], y, xz[2]) : xz \in XZVals, y \in YVals}

SeqsUpTo(S, n) == UNION {[1..k -> S] : k \in 0..n}

\* What one evaluation can hand over: one geometry per multiIndex.
EvaluationsOf(P) ==
  UNION {{<<a, b>> : b \in SeqsUpTo(P, MaxTotalPoints - Len(a))} :
           a \in SeqsUpTo(P, MaxTotalPoints)}

Evaluations == EvaluationsOf(Points)

\* The geometry under the iterator; multiIndex counts from 0.
Geom == geoms[multiIndex + 1]
isDone == iter > Len(Geom)

\* ----------------------------------------------------------------- deform

\* The twist with z computed from the x already overwritten.
doTwist_newX(pt, mag, e) ==
  LET ff == RMul(RMul(mag, pt.y), e)
  IN  IF ff # Zero
      THEN LET cct == cos(ff)
               cst == sin(ff)
               tt == RSub(RMul(pt.x, cct), RMul(pt.z, cst))
               z1 == RAdd(RMul(tt, cst), RMul(pt.z, cct))
           IN  [pt EXCEPT !.z = z1, !.x = tt]
      ELSE pt

\* The twist with the envelope left out of the angle.
doTwist_noEnvelope(pt, mag, e) ==
  LET ff == RMul(mag, pt.y)
  IN  IF ff # Zero
      THEN LET cct == cos(ff)
               cst == sin(ff)
               tt == RSub(RMul(pt.x, cct), RMul(pt.z, cst))
               z1 == RAdd(RMul(pt.x, cst), RMul(pt.z, cct))
           IN  [pt EXCEPT !.z = z1, !.x = tt]
      ELSE pt

\* The twist storing the new x in y as well.
doTwist_writesY(pt, mag, e) ==
  LET ff == RMul(RMul(mag, pt.y), e)
  IN  IF ff # Zero
      THEN LET cct == cos(ff)
               cst == sin(ff)
               tt == RSub(RMul(pt.x, cct), RMul(pt.z, cst))
               z1 == RAdd(RMul(pt.x, cst), RMul(pt.z, cct))
           IN  [pt EXCEPT !.z = z1, !.x = tt, !.y = tt]
      ELSE pt

\* The body of the loop between iter.position() and iter.setPosition(pt).
doTwist(pt, mag, e) ==
  LET ff == RMul(RMul(mag, pt.y), e)
  IN  IF ff # Zero
      THEN LET cct == cos(ff)
               cst == sin(ff)
               tt == RSub(RMul(pt.x, cct), RMul(pt.z, cst))
               z1 == RAdd(RMul(pt.x, cst), RMul(pt.z, cct))
           IN  [pt EXCEPT !.z = z1, !.x = tt]
      ELSE pt

\* The locals of a deform call as the call begins.
Enter(m) ==
  /\ multiIndex' = m
  /\ iter' = 1
  /\ status' = kSuccess
  /\ magnitude' = Unset
  /\ env' = Unset
  /\ ret' = NoValue
  /\ calls' = <<>>
  /\ pc' = "inputAngle"

\* The host starts an evaluation on one of `evals`: it copies the input
\* geometries to the output and calls deform on the first.
evaluateOn(evals) ==
  /\ pc = "idle"
  /\ nodes # <<>>
  /\ \E gl \in evals :
       /\ input' = gl
       /\ geoms' = gl
  /\ cerr' = <<>>
  /\ Enter(0)
  /\ lastCall' = Called("deform")
  /\ UNCHANGED <<registry, classAttrs, affects, regBefore, nodeVars>>

evaluate == evaluateOn(Evaluations)

\* An evaluation of geometries made of two points only, one on the fast path
\* (y = 0) and one off it: how long deform runs and which calls it makes
\* depend on how many points there are and on which path each takes.
evaluateTwoKinds == evaluateOn(EvaluationsOf({MPoint(1, 0, 1), MPoint(1, 1, 0)}))

deform_inputAngle ==
  /\ pc = "inputAngle"
  /\ \E s \in Statuses :
       /\ status' = s
       /\ IF McheckErr(s) # "continue"
          THEN /\ cerr' = Append(cerr, "Error getting angle data handle\n")
               /\ ret' = McheckErr(s)
               /\ pc' = "returned"
               /\ UNCHANGED magnitude
          ELSE /\ magnitude' = block.angle
               /\ pc' = "inputEnvelope"
               /\ UNCHANGED <<cerr, ret>>
  /\ calls' = Append(calls, <<"inputValue", "angle">>)
  /\ UNCHANGED <<pluginVars, nodeVars, input, geoms, multiIndex, iter, env>>

deform_inputEnvelope ==
  /\ pc = "inputEnvelope"
  /\ \E s \in Statuses :
       /\ status' = s
       /\ IF McheckErr(s) # "continue"
          THEN /\ cerr' = Append(cerr, "Error getting envelope data handle\n")
               /\ ret' = McheckErr(s)
               /\ pc' = "returned"
               /\ UNCHANGED env
          ELSE /\ env' = block.envelope
               /\ pc' = "loop"
               /\ UNCHANGED <<cerr, ret>>
  /\ calls' = Append(calls, <<"inputValue", "envelope">>)
  /\ UNCHANGED <<pluginVars, nodeVars, input, geoms, multiIndex, iter,
                 magnitude>>

\* The loop with a twist that builds up: the angle doubles on every pass.
deform_loop_carry ==
  /\ pc = "loop"
  /\ ~isDone
  /\ LET pt == Geom[iter]
     IN  geoms' = [geoms EXCEPT ![multiIndex + 1][iter] =
                                   doTwist(pt, magnitude, env)]
  /\ magnitude' = RAdd(magnitude, magnitude)
  /\ calls' = calls \o <<<<"position", iter>>, <<"setPosition", iter>>,
                         <<"next", iter>>>>
  /\ iter' = iter + 1
  /\ UNCHANGED <<pluginVars, nodeVars, input, multiIndex, env, status, ret,
                 cerr, pc>>

\* The loop with a fast path that skips setPosition.
deform_loop_skipWrite ==
  /\ pc = "loop"
  /\ ~isDone
  /\ LET pt == Geom[iter]
         ff == RMul(RMul(magnitude, pt.y), env)
     IN  /\ geoms' = [geoms EXCEPT ![multiIndex + 1][iter] =
                                      doTwist(pt, magnitude, env)]
         /\ calls' = calls \o
                       (IF ff # Zero
                        THEN <<<<"position", iter>>, <<"setPosition", iter>>,
                               <<"next", iter>>>>
                        ELSE <<<<"position", iter>>, <<"next", iter>>>>)
  /\ iter' = iter + 1
  /\ UNCHANGED <<pluginVars, nodeVars, input, multiIndex, magnitude, env,
                 status, ret, cerr, pc>>

\* One pass of the for loop: position, the twist, setPosition, next.
deform_loop ==
  /\ pc = "loop"
  /\ ~isDone
  /\ LET pt == Geom[iter]
     IN  geoms' = [geoms EXCEPT ![multiIndex + 1][iter] =
                                   doTwist(pt, magnitude, env)]
  /\ calls' = calls \o <<<<"position", iter>>, <<"setPosition", iter>>,
                         <<"next", iter>>>>
  /\ iter' = iter + 1
  /\ UNCHANGED <<pluginVars, nodeVars, input, multiIndex, magnitude, env,
                 status, ret, cerr, pc>>

deform_return ==
  /\ pc = "loop"
  /\ isDone
  /\ ret' = status
  /\ pc' = "returned"
  /\ UNCHANGED <<pluginVars, nodeVars, input, geoms, multiIndex, iter,
                 magnitude, env, status, cerr, calls>>

\* The host goes on to the next geometry of the evaluation.
nextGeometry ==
  /\ pc = "returned"
  /\ ret = kSuccess
  /\ multiIndex + 1 \in MultiIndices
  /\ Enter(multiIndex + 1)
  /\ UNCHANGED <<pluginVars, nodeVars, input, geoms, cerr>>

\* The evaluation is over: deform failed, or every geometry is done.
endEvaluation ==
  /\ pc = "returned"
  /\ ret # kSuccess \/ multiIndex + 1 \notin MultiIndices
  /\ pc' = "idle"
  /\ input' = <<>>
  /\ geoms' = <<>>
  /\ multiIndex' = 0
  /\ iter' = 1
  /\ status' = kSuccess
  /\ magnitude' = Unset
  /\ env' = Unset
  /\ ret' = NoValue
  /\ cerr' = <<>>
  /\ calls' = <<>>
  /\ UNCHANGED <<pluginVars, nodeVars>>

\* ---------------------------------------------------------- specification

Init ==
  /\ registry = {OtherNode}
  /\ classAttrs = <<>>
  /\ affects = {}
  /\ lastCall = Called(NoValue)
  /\ regBefore = {OtherNode}
  /\ nodes = <<>>
  /\ angleSet = FALSE
  /\ input = <<>>
  /\ geoms = <<>>
  /\ multiIndex = 0
  /\ iter = 1
  /\ magnitude = Unset
  /\ env = Unset
  /\ status = kSuccess
  /\ ret = NoValue
  /\ cerr = <<>>
  /\ calls = <<>>
  /\ pc = "idle"

Next ==
  \/ initializePlugin
  \/ uninitializePlugin
  \/ creator
  \/ setAngle
  \/ setEnvelope
  \/ deleteNode
  \/ evaluate
  \/ deform_inputAngle
  \/ deform_inputEnvelope
  \/ deform_loop
  \/ deform_return
  \/ nextGeometry
  \/ endEvaluation

Spec == Init /\ [][Next]_vars

\* Once called, deform runs to its return: the host calls it synchronously.
deformSteps ==
  \/ deform_inputAngle
  \/ deform_inputEnvelope
  \/ deform_loop
  \/ deform_return

\* The same program with the host's evaluations drawn from evaluateTwoKinds.
FairNext ==
  \/ initializePlugin
  \/ uninitializePlugin
  \/ creator
  \/ setAngle
  \/ setEnvelope
  \/ deleteNode
  \/ evaluateTwoKinds
  \/ deform_inputAngle
  \/ deform_inputEnvelope
  \/ deform_loop
  \/ deform_return
  \/ nextGeometry
  \/ endEvaluation

FairSpec == Init /\ [][FairNext]_vars /\ WF_vars(deformSteps)

\* ------------------------------------------------------- claims: helpers

\* <<g, i>> for every point the evaluation has written so far: point i of
\* geometry g (counted from 1).
Written ==
  {gi \in UNION {{<<g, i>> : i \in 1..Len(geoms[g])} : g \in 1..Len(geoms)} :
     \/ gi[1] < multiIndex + 1
     \/ gi[1] = multiIndex + 1 /\ gi[2] < iter}

In(gi) == input[gi[1]][gi[2]]
Out(gi) == geoms[gi[1]][gi[2]]

\* The angle of the claims for a point: angle * y * envelope.
Theta(p) == RMul(RMul(block.angle, p.y), block.envelope)

RadiusSq(p) == RAdd(RMul(p.x, p.x), RMul(p.z, p.z))

Succeeded == pc = "returned" /\ ret = kSuccess

RECURSIVE LoopCalls(_)
LoopCalls(n) ==
  IF n = 0 THEN <<>>
  ELSE LoopCalls(n - 1) \o
         <<<<"position", n>>, <<"setPosition", n>>, <<"next", n>>>>

yTwistEntry == [name |-> "yTwist", id |-> yTwist_id, type |-> "kDeformerNode"]

\* ---------------------------------------------------------------- claims

\* C1: every point deform has written holds (x cos t - z sin t, y,
\* x sin t + z cos t) for the x, y, z it was read with and t = angle * y *
\* envelope; both new coordinates come from the original x and z.
C1_TwistFormula ==
  \A gi \in Written :
    LET p == In(gi)
        q == Out(gi)
        t == Theta(p)
    IN  /\ q.x = RSub(RMul(p.x, cos(t)), RMul(p.z, sin(t)))
        /\ q.z = RAdd(RMul(p.x, sin(t)), RMul(p.z, cos(t)))
        /\ q.y = p.y

C1_Witness ==
  /\ Succeeded
  /\ \E gi \in Written :
       /\ Theta(In(gi)) # Zero
       /\ In(gi).x # Zero
       /\ In(gi).z # Zero

\* C2: with angle = 0 or envelope = 0, and for any point with y = 0, the
\* position deform writes is the position it read.
C2_Identity ==
  \A gi \in Written :
    (block.angle = Zero \/ block.envelope = Zero \/ In(gi).y = Zero)
      => Out(gi) = In(gi)

C2_Witness ==
  /\ Succeeded
  /\ block.angle # Zero
  /\ block.envelope = Zero
  /\ \E gi \in Written :
       /\ In(gi).y # Zero
       /\ In(gi).x # Zero

\* C3 as stated: when a read of an attribute answers a non-success status s,
\* deform returns s itself.
C3_ForwardsStatus ==
  (pc = "returned" /\ status # kSuccess) => ret = status

\* C3 amended: when a read of an attribute answers a non-success status,
\* deform returns kFailure, whatever the status was.
C3_ReturnsFailure ==
  (pc = "returned" /\ status # kSuccess) => ret = kFailure

C3_Witness ==
  /\ pc = "returned"
  /\ status = "kInvalidParameter"
  /\ ret = kFailure

\* C4: a failed read makes deform log its message and return a failure with
\* the geometry untouched: the iterator is where it began, no position was
\* read or set; and after a failed read of the angle nothing else was read.
C4_AbortBeforeGeometry ==
  (pc = "returned" /\ status # kSuccess) =>
    /\ ret # kSuccess
    /\ cerr # <<>>
    /\ iter = 1
    /\ Geom = input[multiIndex + 1]
    /\ \A k \in 1..Len(calls) : calls[k][1] = "inputValue"
    /\ magnitude = Unset =>
         /\ calls = <<<<"inputValue", "angle">>>>
         /\ cerr[Len(cerr)] = "Error getting angle data handle\n"
    /\ magnitude # Unset =>
         /\ calls = <<<<"inputValue", "angle">>, <<"inputValue", "envelope">>>>
         /\ cerr[Len(cerr)] = "Error getting envelope data handle\n"

C4_Witness ==
  /\ pc = "returned"
  /\ status # kSuccess
  /\ magnitude = Unset
  /\ Len(Geom) > 0
  /\ block.angle # Zero
  /\ block.envelope # Zero

C6_FreshNodeIdentity ==
  /\ Registered(yTwist_id) =>
       /\ Len(classAttrs) = 1
       /\ classAttrs[1].name = "angle"
       /\ classAttrs[1].type = "kDouble"
       /\ classAttrs[1].default = Zero
       /\ affects = {<<"angle", "outputGeom">>}
  /\ ~angleSet => \A gi \in Written : Out(gi) = In(gi)

C6_Witness ==
  /\ Succeeded
  /\ ~angleSet
  /\ block.envelope # Zero
  /\ \E gi \in Written :
       /\ In(gi).y # Zero
       /\ In(gi).x # Zero

\* C7: once both reads have succeeded deform reaches its return; there it
\* returns success with the iterator done, having called position,
\* setPosition and next once for each point, in order, and nothing for a
\* geometry without points.
C7_Returned ==
  (pc = "returned" /\ env # Unset) =>
    /\ ret = kSuccess
    /\ isDone
    /\ calls = <<<<"inputValue", "angle">>, <<"inputValue", "envelope">>>>
                 \o LoopCalls(Len(Geom))

C7_Terminates == [](C7_Returned) /\ (pc = "loop" ~> Succeeded)

C7_Witness ==
  /\ Succeeded
  /\ Len(Geom) >= 2
  /\ Len(input[1]) = 0
  /\ \E i \in 1..Len(Geom) : Theta(input[multiIndex + 1][i]) = Zero
  /\ \E i \in 1..Len(Geom) : Theta(input[multiIndex + 1][i]) # Zero

\* C8: two points read with the same position are written with the same
\* position, in whichever geometry and at whichever place each of them
\* stands, whatever the other points are: nothing is carried from one pass of
\* the loop, or one call, to the next.
C8_NoCarriedState ==
  \A gi \in Written : \A hj \in Written :
    In(gi) = In(hj) => Out(gi) = Out(hj)

C8_Witness ==
  /\ Succeeded
  /\ multiIndex = 1
  /\ Len(geoms[1]) # Len(geoms[2])
  /\ \E i \in 1..Len(geoms[1]) : \E j \in 1..Len(geoms[2]) :
       /\ i # j
       /\ input[1][i] = input[2][j]
       /\ Theta(input[1][i]) # Zero
       /\ input[1][i].x # Zero
       /\ input[1][1] # input[2][1]

\* C9: initializePlugin and uninitializePlugin return what the host's call
\* returned; after an accepted initializePlugin the registry is the one
\* before plus yTwist under yTwist::id as a deformer node, after an accepted
\* uninitializePlugin it is the one before the plug-in was loaded.
C9_Registration ==
  /\ lastCall.call \in {"initializePlugin", "uninitializePlugin"} =>
       lastCall.result = lastCall.host
  /\ (lastCall.call = "initializePlugin" /\ lastCall.host = kSuccess) =>
       registry = regBefore \cup {yTwistEntry}
  /\ (lastCall.call = "uninitializePlugin" /\ lastCall.host = kSuccess) =>
       /\ ~Registered(yTwist_id)
       /\ registry = regBefore
  /\ nodes # <<>> => Registered(yTwist_id)

C9_Witness ==
  /\ lastCall.call = "uninitializePlugin"
  /\ lastCall.host = kSuccess
  /\ regBefore # {}

\* C10: deform changes no y, adds, drops or moves no point, leaves the points
\* it has not reached as they were, and never writes the data block.
C10_FrameState ==
  /\ Len(geoms) = Len(input)
  /\ \A g \in 1..Len(geoms) :
       /\ Len(geoms[g]) = Len(input[g])
       /\ \A i \in 1..Len(geoms[g]) :
            /\ geoms[g][i].y = input[g][i].y
            /\ <<g, i>> \notin Written => geoms[g][i] = input[g][i]

C10_Frame == [](C10_FrameState) /\ [][deformSteps => nodes' = nodes]_vars

C10_Witness ==
  /\ Succeeded
  /\ multiIndex = 1
  /\ \E gi \in Written :
       /\ Out(gi) # In(gi)
       /\ In(gi).y # Zero

====
